---- MODULE Spec2Model ----
(***************************************************************************)
(* Model of extensions_pdf_to_csv.py: one producer (download_pdfs) feeding *)
(* an asyncio.Queue drained by ntasks workers (save_csvs), driven by main. *)
(*                                                                         *)
(* Strings are sequences of symbols; a symbol is one character or a run of *)
(* alphanumerics that no operation of the program splits ("Expantions").   *)
(* The asyncio event loop is modelled as it runs the tasks: one task at a  *)
(* time (cur), taken from the head of the FIFO of ready tasks (ready), and *)
(* running until it suspends at an await that cannot complete.             *)
(***************************************************************************)
EXTENDS Integers, Sequences, FiniteSets, TLC

\* ------------------------------------------------------------------ bounds
MaxUrls == 2        \* longest source list returned by download_main_page
MaxWorkers == 2     \* largest ntasks
MaxOld == 1         \* modification times of files left by earlier runs: 0..MaxOld
MaxRuns == 2        \* how many times main is run on the same file system

\* ------------------------------------------------------- program constants
NoFile == -1        \* disk_time = -1 / csv_time = -1: "no such file"
HttpOk == 200       \* response.status_code == 200
HeaderRow == 1      \* tables[0].df.iloc[1] (0-based position of the header)
DropRows == 2       \* .iloc[2:]
KeepCols == 10      \* .iloc[:, :10]

\* ----------------------------------------------------------------- strings
Min(a, b) == IF a < b THEN a ELSE b

Max(a, b) == IF a > b THEN a ELSE b

\* characters that str.strip() removes
Whitespace == {" ", "\t"}

\* symbols matched by the regular expression class [-\w.]
KeptSymbols == {"-", "_", ".", "A", "B", "C", "D", "G", "h", "pdf", "csv", "Expantions",
                "Expansions", "Report", "final", "7"}

RECURSIVE LStrip(_)
LStrip(s) == IF s # <<>> /\ Head(s) \in Whitespace THEN LStrip(Tail(s)) ELSE s

RECURSIVE RStrip(_)
RStrip(s) ==
    IF s # <<>> /\ s[Len(s)] \in Whitespace THEN RStrip(SubSeq(s, 1, Len(s) - 1)) ELSE s

\* only the whitespace in front is removed
StripFront(s) == LStrip(s)

\* str.strip()
Strip(s) == RStrip(LStrip(s))

\* str.replace(old, new): every non-overlapping occurrence, left to right
RECURSIVE Replace(_, _, _)
Replace(s, old, new) ==
    IF Len(s) < Len(old) \/ old = <<>> THEN s
    ELSE IF SubSeq(s, 1, Len(old)) = old
         THEN new \o Replace(SubSeq(s, Len(old) + 1, Len(s)), old, new)
         ELSE <<Head(s)>> \o Replace(Tail(s), old, new)

\* `old in s`
Contains(s, old) == \E i \in 1..(Len(s) - Len(old) + 1) : SubSeq(s, i, i + Len(old) - 1) = old

\* re.sub(r"(?u)[^-\w.]", "", s)
RECURSIVE ReSubDrop(_)
ReSubDrop(s) ==
    IF s = <<>> THEN <<>>
    ELSE IF Head(s) \in KeptSymbols THEN <<Head(s)>> \o ReSubDrop(Tail(s))
         ELSE ReSubDrop(Tail(s))

get_valid_filename(s) == ReSubDrop(Replace(Strip(s), <<" ">>, <<"_">>))

\* url.split("/")[-1]
RECURSIVE LastSegment(_)
LastSegment(url) ==
    IF \E i \in 1..Len(url) : url[i] = "/"
    THEN LastSegment(Tail(url))
    ELSE url

\* os.path.basename(pdf_path).replace(".pdf", ".csv"), then the spelling fix
CsvFilename(pdf_name) ==
    LET filename == Replace(pdf_name, <<".", "pdf">>, <<".", "csv">>)
    IN  IF Contains(filename, <<"Expantions">>)
        THEN Replace(filename, <<"Expantions">>, <<"Expansions">>)
        ELSE filename

\* ------------------------------------------------------------ data_to_csv
\* A document is what camelot makes of it: [ok |-> FALSE] when read_pdf raises,
\* otherwise its table regions, each a sequence of rows of equal width.
NaN == "NaN"

RegionWidth(t) == IF t = <<>> THEN 0 ELSE Len(t[1])

RECURSIVE MaxWidth(_)
MaxWidth(tables) ==
    IF tables = <<>> THEN 0 ELSE Max(RegionWidth(Head(tables)), MaxWidth(Tail(tables)))

\* one row of the concatenated frame: its index label and its cells, padded
\* with NaN up to the width of the widest region
PadRow(row, w) == row \o [k \in 1..(w - Len(row)) |-> NaN]

RegionRows(t, w) == [k \in 1..Len(t) |-> [idx |-> k - 1, cells |-> PadRow(t[k], w)]]

RECURSIVE ConcatRows(_, _)
ConcatRows(tables, w) ==
    IF tables = <<>> THEN <<>>
    ELSE RegionRows(Head(tables), w) \o ConcatRows(Tail(tables), w)

\* pd.concat([t.df for t in tables])
PdConcat(tables) == ConcatRows(tables, MaxWidth(tables))

\* .iloc[n:]
IlocRowsFrom(rows, n) == SubSeq(rows, n + 1, Len(rows))

\* .iloc[:, :n]
IlocColsTo(rows, n) ==
    [k \in 1..Len(rows) |->
        [idx |-> rows[k].idx, cells |-> SubSeq(rows[k].cells, 1, Min(n, Len(rows[k].cells)))]]

\* DataFrame.to_csv(): the index is written as a first, unnamed column and
\* NaN as the empty field
CsvField(c) == IF c = NaN THEN "" ELSE c

CsvLine(label, cells) == <<label>> \o [k \in 1..Len(cells) |-> CsvField(cells[k])]

ToCsv(columns, rows) ==
    <<CsvLine("", columns)>> \o
    [k \in 1..Len(rows) |-> CsvLine(ToString(rows[k].idx), rows[k].cells)]

\* cell.strip() on the cells the model uses
StripCell(c) == IF c = " Number " THEN "Number" ELSE c

Raised(exc) == [type |-> "raise", exc |-> exc]

\* lines 89-105 of data_to_csv, given the regions read_pdf returned
Extract(tables) ==
    IF tables = <<>> THEN Raised("IndexError")                    \* tables[0]
    ELSE IF Len(tables[1]) <= HeaderRow THEN Raised("IndexError")   \* .iloc[1]
    ELSE IF RegionWidth(tables[1]) = 0 THEN Raised("KeyError")     \* headers[0]
    ELSE
      LET raw == tables[1][HeaderRow + 1]
          broken_format == StripCell(raw[1]) # "Number"
          headers == IF broken_format THEN [raw EXCEPT ![1] = "Number"] ELSE raw
          concat == IlocRowsFrom(PdConcat(tables), DropRows)
          width == IF broken_format THEN Min(KeepCols, MaxWidth(tables)) ELSE MaxWidth(tables)
          all_data == IF broken_format THEN IlocColsTo(concat, KeepCols) ELSE concat
      IN  IF Len(headers) # width
          THEN [type |-> "ValueError", columns |-> <<>>, rows |-> <<>>, csv |-> <<>>]
          ELSE [type |-> "str", columns |-> headers, rows |-> all_data,
                csv |-> ToCsv(headers, all_data)]

data_to_csv(doc) == IF ~doc.ok THEN Raised("Exception") ELSE Extract(doc.tables)

\* ------------------------------------------------------- the remote site
\* Documents as the table-detection library sees them.
GoodDoc(tag) ==
    [ok |-> TRUE,
     tables |-> << << <<"Title", "">>, <<"Number", "Name">>, <<tag, "x">> >> >>]

\* the second region is wider than the header of the first
DocWidths ==
    [ok |-> TRUE,
     tables |-> << << <<"Title", "">>, <<"Number", "Name">> >>, << <<"1", "x", "y">> >> >>]

DocCorrupt == [ok |-> FALSE, tables |-> <<>>]

\* an earlier version of a document, left in the cache by an earlier run
DocOld == GoodDoc("old")

NoDoc == [ok |-> FALSE, tables |-> <<>>]

UrlA == <<"h", "/", "A", ".", "pdf">>
UrlT == <<"h", "/", "Expantions", ".", "pdf">>
UrlS == <<"h", "/", "Expansions", ".", "pdf">>
UrlW == <<"h", "/", " ", "B", " ", "(", "7", ")", ".", "pdf">>
UrlC == <<"h", "/", "C", ".", "pdf">>
UrlD == <<"h", "/", "D", ".", "pdf">>
UrlG == <<"h", "/", "G", ".", "pdf">>

Urls == {UrlA, UrlT, UrlS, UrlW, UrlC, UrlD, UrlG}

\* What the site answers for a URL: the status of the HEAD request, the
\* Last-Modified time it reports, the status of the GET request and the body.
\* The answers do not change between runs.
Remote(url) ==
    [head |-> IF url = UrlD THEN 404 ELSE HttpOk,
     last_modified |-> 1,
     get |-> IF url = UrlG THEN 404 ELSE HttpOk,
     content |-> CASE url = UrlA -> GoodDoc("a")
                   [] url = UrlT -> GoodDoc("t")
                   [] url = UrlS -> GoodDoc("s")
                   [] url = UrlW -> DocWidths
                   [] url = UrlC -> DocCorrupt
                   [] OTHER -> GoodDoc("g")]

RECURSIVE SeqsUpTo(_, _)
SeqsUpTo(S, n) ==
    IF n = 0 THEN {<<>>}
    ELSE LET shorter == SeqsUpTo(S, n - 1)
         IN  shorter \cup {Append(s, x) : s \in shorter, x \in S}

\* what download_main_page may return
SourceLists == SeqsUpTo(Urls, MaxUrls)

\* ------------------------------------------------------- the file system
\* output_path = os.path.join(cache_dir, filename): a file of the cache
\* directory is named by its filename, the directory being the same for all.
PdfPath(url) == get_valid_filename(LastSegment(url))

PdfNames == {PdfPath(u) : u \in Urls}

CsvNames == {CsvFilename(n) : n \in PdfNames}

NoPdf == [exists |-> FALSE, mtime |-> 0, doc |-> NoDoc]

NoCsv == [exists |-> FALSE, mtime |-> 0, text |-> <<>>]

OldCsv == <<  <<"", "Number", "Name">>, <<"2", "old", "x">> >>

OldTimes == 0..MaxOld

\* os.path.exists / os.stat(...).st_mtime
Exists(dir, name) == dir[name].exists

StMtime(dir, name) == dir[name].mtime

\* ------------------------------------------------------------------ state
VARIABLES
    report_urls,   \* the list download_main_page returns
    ntasks,        \* main's argument
    run,           \* how many times main has been started
    now,           \* the clock that stamps written files
    cache_dir,     \* "pdfs": "missing", "dir" or "file" (exists, not a directory)
    csv_dir,       \* "csv": the same
    pdfs,          \* the files of the cache directory
    csvs,          \* the files of the output directory
    zip,           \* expansions_data.zip: "none" or the names stored in it
    ready,         \* the event loop's FIFO of tasks ready to run
    cur,           \* the task that is running
    main_pc,       \* main's position
    dl,            \* download_pdfs: position and locals
    wk,            \* save_csvs, per worker: position and locals
    q,             \* the asyncio.Queue
    fetched,       \* URLs requested with GET in this run
    reconciled,    \* paths data_to_csv was called on in this run
    written,       \* output names written in this run
    decided,       \* the last staleness decision of each stage in this run
    zipped,        \* archives built in this run
    fs0,           \* the files as they were when this run started
    doc_in,        \* a document handed to data_to_csv on its own
    csv_out,       \* what data_to_csv made of doc_in, once called
    url_in,        \* a URL whose cache file name is derived on its own
    name_out       \* the file names derived from url_in, one per call

vars == <<report_urls, ntasks, run, now, cache_dir, csv_dir, pdfs, csvs, zip, ready, cur,
          main_pc, dl, wk, q, fetched, reconciled, written, decided, zipped, fs0,
          doc_in, csv_out, url_in, name_out>>

env == <<report_urls, ntasks, run, now, doc_in, csv_out, url_in, name_out>>

hist == <<fetched, reconciled, written, decided, zipped, fs0>>

TaskMain == [kind |-> "main", n |-> 0]

TaskDl == [kind |-> "download_pdfs", n |-> 0]

Worker(k) == [kind |-> "save_csvs", n |-> k]

NoTask == [kind |-> "none", n |-> 0]

Workers == 1..ntasks

DlInit == [pc |-> "new", i |-> 1, output_paths |-> <<>>, web_time |-> 0, output_path |-> <<>>]

WkInit ==
    [pc |-> "new", exc |-> "", pdf_path |-> <<>>, output_path |-> <<>>,
     csv_data_maybe |-> [type |-> "none"]]

\* asyncio.Queue(): the items, the count of items not yet acknowledged, the
\* workers blocked in get, and whether main is blocked in join
QueueInit == [queue |-> <<>>, unfinished_tasks |-> 0, getters |-> <<>>, joining |-> FALSE]

NoDecision == [taken |-> FALSE, reference |-> 0, exists |-> FALSE, mtime |-> 0, stale |-> FALSE]

ProcessInit ==
    /\ ready = <<TaskMain>>
    /\ cur = NoTask
    /\ main_pc = "start"
    /\ dl = DlInit
    /\ wk = [k \in Workers |-> WkInit]
    /\ q = QueueInit
    /\ fetched = {}
    /\ reconciled = {}
    /\ written = {}
    /\ decided = [fetch |-> NoDecision, transform |-> NoDecision]
    /\ zipped = 0

\* a first run: nothing cached, nothing converted; either directory may be
\* missing, present, or a path taken by a file
InitFresh ==
    /\ report_urls \in SourceLists
    /\ cache_dir \in {"missing", "dir", "file"}
    /\ csv_dir \in {"missing", "dir", "file"}
    /\ pdfs = [n \in PdfNames |-> NoPdf]
    /\ csvs = [n \in CsvNames |-> NoCsv]

\* a run on what an earlier run left of the first source: its cached
\* document, its output artifact, or both
InitRerun ==
    /\ report_urls \in SourceLists \ {<<>>}
    /\ cache_dir = "dir"
    /\ csv_dir = "dir"
    /\ \E p \in {NoPdf} \cup {[exists |-> TRUE, mtime |-> t, doc |-> DocOld] : t \in OldTimes},
          c \in {NoCsv} \cup {[exists |-> TRUE, mtime |-> t, text |-> OldCsv] : t \in OldTimes} :
          /\ p.exists \/ c.exists
          /\ pdfs = [n \in PdfNames |-> IF n = PdfPath(report_urls[1]) THEN p ELSE NoPdf]
          /\ csvs = [n \in CsvNames |->
                        IF n = CsvFilename(PdfPath(report_urls[1])) THEN c ELSE NoCsv]

NotCalled == [type |-> "not called"]

Init ==
    /\ doc_in = NoDoc
    /\ csv_out = NotCalled
    /\ url_in = <<>>
    /\ name_out = <<>>
    /\ ntasks \in 1..MaxWorkers
    /\ run = 1
    /\ now = MaxOld + 1
    /\ zip = "none"
    /\ InitFresh \/ InitRerun
    /\ fs0 = [pdfs |-> pdfs, csvs |-> csvs]
    /\ ProcessInit

\* --------------------------------------------------------- the event loop
\* The loop runs the task at the head of its FIFO of ready tasks.
Dispatch ==
    /\ cur = NoTask
    /\ ready # <<>>
    /\ cur' = Head(ready)
    /\ ready' = Tail(ready)
    /\ UNCHANGED <<env, cache_dir, csv_dir, pdfs, csvs, zip, main_pc, dl, wk, q, hist>>

\* a last-in first-out queue: the item is put in front
PutFront(queue, item) ==
    [queue EXCEPT !.queue = <<item>> \o @,
                  !.unfinished_tasks = @ + 1,
                  !.getters = IF @ = <<>> THEN @ ELSE Tail(@)]

\* Queue.put_nowait: append, count the item as unfinished, wake the first
\* worker blocked in get (the loop appends it to the ready tasks)
PutNowait(queue, item) ==
    [queue EXCEPT !.queue = Append(@, item),
                  !.unfinished_tasks = @ + 1,
                  !.getters = IF @ = <<>> THEN @ ELSE Tail(@)]

Woken(queue) == IF queue.getters = <<>> THEN <<>> ELSE <<Worker(Head(queue.getters))>>

\* join waits for the queue to be empty, not for the acknowledgements
JoinOnEmptyQueue(queue) == queue.queue = <<>>

\* Queue.join returns at once unless items are unfinished
JoinReturnsNow(queue) == queue.unfinished_tasks = 0

\* ----------------------------------------------------------- download_pdfs
\* lines 49-52
DlMkdir ==
    /\ cur = TaskDl
    /\ dl.pc = "new"
    /\ IF cache_dir = "file"
       THEN /\ dl' = [dl EXCEPT !.pc = "raised"]
            /\ ready' = Append(ready, TaskMain)
            /\ cur' = NoTask
            /\ UNCHANGED cache_dir
       ELSE /\ dl' = [dl EXCEPT !.pc = "loop"]
            /\ cache_dir' = "dir"
            /\ UNCHANGED <<ready, cur>>
    /\ UNCHANGED <<env, csv_dir, pdfs, csvs, zip, main_pc, wk, q, hist>>

\* any answer counts as success
HeadAnswered(response) == response.head > 0

\* line 58
HeadOk(response) == response.head = HttpOk

\* equal times count as stale
FetchStaleOrEqual(disk_time, web_time) == disk_time = NoFile \/ disk_time <= web_time

\* line 71
FetchStale(disk_time, web_time) == disk_time = NoFile \/ disk_time < web_time

\* lines 56-71 and 77-78: the HEAD request and the staleness decision
DlHead ==
    /\ cur = TaskDl
    /\ dl.pc = "loop"
    /\ dl.i <= Len(report_urls)
    /\ LET url == report_urls[dl.i]
           response == Remote(url)
           web_time == response.last_modified
           output_path == PdfPath(url)
           disk_time == IF Exists(pdfs, output_path) THEN StMtime(pdfs, output_path) ELSE NoFile
       IN  IF HeadOk(response)
           THEN /\ dl' = [dl EXCEPT !.pc = IF FetchStale(disk_time, web_time)
                                           THEN "get" ELSE "put",
                                    !.web_time = web_time,
                                    !.output_path = output_path]
                /\ decided' = [decided EXCEPT !.fetch =
                                  [taken |-> TRUE, reference |-> web_time,
                                   exists |-> Exists(pdfs, output_path),
                                   mtime |-> StMtime(pdfs, output_path),
                                   stale |-> FetchStale(disk_time, web_time)]]
           ELSE /\ dl' = [dl EXCEPT !.i = @ + 1]
                /\ UNCHANGED decided
    /\ UNCHANGED <<env, cache_dir, csv_dir, pdfs, csvs, zip, ready, cur, main_pc, wk, q,
                   fetched, reconciled, written, zipped, fs0>>

\* any answer to the GET request counts as success
GetAnswered(response) == response.get > 0

\* line 73
GetOk(response) == response.get = HttpOk

\* lines 72-76: the GET request; the file is written only on success
DlGet ==
    /\ cur = TaskDl
    /\ dl.pc = "get"
    /\ LET url == report_urls[dl.i]
           full_response == Remote(url)
       IN  /\ fetched' = fetched \cup {url}
           /\ pdfs' = IF GetOk(full_response)
                      THEN [pdfs EXCEPT ![dl.output_path] =
                               [exists |-> TRUE, mtime |-> now, doc |-> full_response.content]]
                      ELSE pdfs
    /\ dl' = [dl EXCEPT !.pc = "put"]
    /\ UNCHANGED <<env, cache_dir, csv_dir, csvs, zip, ready, cur, main_pc, wk, q,
                   reconciled, written, decided, zipped, fs0>>

\* only a path whose file exists is queued
DlPutIfExists ==
    /\ cur = TaskDl
    /\ dl.pc = "put"
    /\ dl' = [dl EXCEPT !.pc = "loop", !.i = @ + 1,
                        !.output_paths = IF Exists(pdfs, dl.output_path)
                                         THEN Append(@, dl.output_path) ELSE @,
                        !.output_path = <<>>, !.web_time = 0]
    /\ q' = IF Exists(pdfs, dl.output_path) THEN PutNowait(q, dl.output_path) ELSE q
    /\ ready' = IF Exists(pdfs, dl.output_path) THEN ready \o Woken(q) ELSE ready
    /\ UNCHANGED <<env, cache_dir, csv_dir, pdfs, csvs, zip, cur, main_pc, wk, hist>>

\* lines 79-80: q.put never blocks, the queue being unbounded
DlPut ==
    /\ cur = TaskDl
    /\ dl.pc = "put"
    /\ dl' = [dl EXCEPT !.pc = "loop", !.i = @ + 1,
                        !.output_paths = Append(@, dl.output_path),
                        !.output_path = <<>>, !.web_time = 0]
    /\ q' = PutNowait(q, dl.output_path)
    /\ ready' = ready \o Woken(q)
    /\ UNCHANGED <<env, cache_dir, csv_dir, pdfs, csvs, zip, cur, main_pc, wk, hist>>

\* line 81: the task ends, which completes the gather main awaits
DlReturn ==
    /\ cur = TaskDl
    /\ dl.pc = "loop"
    /\ dl.i > Len(report_urls)
    /\ dl' = [dl EXCEPT !.pc = "done"]
    /\ ready' = Append(ready, TaskMain)
    /\ cur' = NoTask
    /\ UNCHANGED <<env, cache_dir, csv_dir, pdfs, csvs, zip, main_pc, wk, q, hist>>

\* --------------------------------------------------------------- save_csvs
\* a worker ends with the exception exc, which nothing catches
WkRaise(k, exc) ==
    /\ wk' = [wk EXCEPT ![k] = [WkInit EXCEPT !.pc = "raised", !.exc = exc]]
    /\ cur' = NoTask

\* lines 111-114
WkMkdir(k) ==
    /\ cur = Worker(k)
    /\ wk[k].pc \in {"new", "top"}
    /\ IF csv_dir = "file"
       THEN /\ WkRaise(k, "IOError")
            /\ UNCHANGED csv_dir
       ELSE /\ wk' = [wk EXCEPT ![k].pc = "get"]
            /\ csv_dir' = "dir"
            /\ UNCHANGED cur
    /\ UNCHANGED <<env, cache_dir, pdfs, csvs, zip, ready, main_pc, dl, q, hist>>

\* line 116: Queue.get suspends the worker while the queue is empty
WkGet(k) ==
    /\ cur = Worker(k)
    /\ wk[k].pc \in {"get", "waiting"}
    /\ IF q.queue = <<>>
       THEN /\ q' = [q EXCEPT !.getters = Append(@, k)]
            /\ wk' = [wk EXCEPT ![k].pc = "waiting"]
            /\ cur' = NoTask
       ELSE /\ q' = [q EXCEPT !.queue = Tail(@)]
            /\ wk' = [wk EXCEPT ![k].pc = "stat", ![k].pdf_path = Head(q.queue)]
            /\ UNCHANGED cur
    /\ UNCHANGED <<env, cache_dir, csv_dir, pdfs, csvs, zip, ready, main_pc, dl, hist>>

\* equal times count as stale
CsvStaleOrEqual(csv_time, pdf_time) == csv_time = NoFile \/ csv_time <= pdf_time

\* line 126
CsvStale(csv_time, pdf_time) == csv_time = NoFile \/ csv_time < pdf_time

\* the worker suspends after the stat of the cached file, as it would on an
\* awaited file operation, and lets the other tasks run
WkStatYields(k) ==
    /\ cur = Worker(k)
    /\ wk[k].pc = "stat"
    /\ wk' = [wk EXCEPT ![k].pc = "process", ![k].output_path = CsvFilename(wk[k].pdf_path)]
    /\ ready' = Append(ready, Worker(k))
    /\ cur' = NoTask
    /\ UNCHANGED <<env, cache_dir, csv_dir, pdfs, csvs, zip, main_pc, dl, q, hist>>

\* lines 117-126 and 134-135: os.stat of the cached file, the output name
\* and the staleness decision
WkStat(k) ==
    /\ cur = Worker(k)
    /\ wk[k].pc = "stat"
    /\ LET pdf_path == wk[k].pdf_path
           output_path == CsvFilename(pdf_path)
           pdf_time == StMtime(pdfs, pdf_path)
           csv_time == IF Exists(csvs, output_path) THEN StMtime(csvs, output_path) ELSE NoFile
       IN  IF ~Exists(pdfs, pdf_path)
           THEN /\ WkRaise(k, "FileNotFoundError")
                /\ UNCHANGED decided
           ELSE /\ wk' = [wk EXCEPT ![k].pc = IF CsvStale(csv_time, pdf_time)
                                              THEN "process" ELSE "task_done",
                                    ![k].output_path = output_path]
                /\ decided' = [decided EXCEPT !.transform =
                                  [taken |-> TRUE, reference |-> pdf_time,
                                   exists |-> Exists(csvs, output_path),
                                   mtime |-> StMtime(csvs, output_path),
                                   stale |-> CsvStale(csv_time, pdf_time)]]
                /\ UNCHANGED cur
    /\ UNCHANGED <<env, cache_dir, csv_dir, pdfs, csvs, zip, ready, main_pc, dl, q,
                   fetched, reconciled, written, zipped, fs0>>

\* lines 127-128
WkProcess(k) ==
    /\ cur = Worker(k)
    /\ wk[k].pc = "process"
    /\ reconciled' = reconciled \cup {wk[k].pdf_path}
    /\ LET csv_data_maybe == data_to_csv(pdfs[wk[k].pdf_path].doc)
       IN  IF csv_data_maybe.type = "raise"
           THEN WkRaise(k, csv_data_maybe.exc)
           ELSE /\ wk' = [wk EXCEPT ![k].pc = "result", ![k].csv_data_maybe = csv_data_maybe]
                /\ UNCHANGED cur
    /\ UNCHANGED <<env, cache_dir, csv_dir, pdfs, csvs, zip, ready, main_pc, dl, q,
                   fetched, written, decided, zipped, fs0>>

\* whatever data_to_csv returned is written
IsReturned(csv_data_maybe) == csv_data_maybe.type \in {"str", "ValueError"}

\* line 129
IsStr(csv_data_maybe) == csv_data_maybe.type = "str"

\* lines 129-133
WkWrite(k) ==
    /\ cur = Worker(k)
    /\ wk[k].pc = "result"
    /\ IF IsStr(wk[k].csv_data_maybe)
       THEN /\ csvs' = [csvs EXCEPT ![wk[k].output_path] =
                           [exists |-> TRUE, mtime |-> now, text |-> wk[k].csv_data_maybe.csv]]
            /\ written' = written \cup {wk[k].output_path}
       ELSE UNCHANGED <<csvs, written>>
    /\ wk' = [wk EXCEPT ![k].pc = "task_done"]
    /\ UNCHANGED <<env, cache_dir, csv_dir, pdfs, zip, ready, cur, main_pc, dl, q,
                   fetched, reconciled, decided, zipped, fs0>>

\* line 136: Queue.task_done; the last acknowledgement wakes main out of join
WkTaskDone(k) ==
    /\ cur = Worker(k)
    /\ wk[k].pc = "task_done"
    /\ q' = [q EXCEPT !.unfinished_tasks = @ - 1,
                      !.joining = IF q.unfinished_tasks = 1 THEN FALSE ELSE @]
    /\ ready' = IF q.unfinished_tasks = 1 /\ q.joining THEN Append(ready, TaskMain) ELSE ready
    /\ wk' = [wk EXCEPT ![k] = [WkInit EXCEPT !.pc = "top"]]
    /\ UNCHANGED <<env, cache_dir, csv_dir, pdfs, csvs, zip, cur, main_pc, dl, hist>>

\* -------------------------------------------------------------------- main
\* lines 141-144: the workers are created, then the producer; main awaits it
MainStart ==
    /\ cur = TaskMain
    /\ main_pc = "start"
    /\ ready' = ready \o [k \in 1..ntasks |-> Worker(k)] \o <<TaskDl>>
    /\ main_pc' = "gather"
    /\ cur' = NoTask
    /\ UNCHANGED <<env, cache_dir, csv_dir, pdfs, csvs, zip, dl, wk, q, hist>>

\* Task.cancel on every worker: one that has not ended is cancelled
Cancelled(w) == IF w.pc = "raised" THEN w ELSE [WkInit EXCEPT !.pc = "cancelled"]

\* line 144 resumes: an exception of the producer leaves main, and
\* asyncio.run cancels what is left
MainGathered ==
    /\ cur = TaskMain
    /\ main_pc = "gather"
    /\ IF dl.pc = "raised"
       THEN /\ main_pc' = "failed"
            /\ wk' = [k \in Workers |-> Cancelled(wk[k])]
            /\ ready' = <<>>
            /\ cur' = NoTask
       ELSE /\ main_pc' = "join"
            /\ UNCHANGED <<wk, ready, cur>>
    /\ UNCHANGED <<env, cache_dir, csv_dir, pdfs, csvs, zip, dl, q, hist>>

\* line 145: main goes on at once, or blocks until the last task_done
\* wakes it
MainJoin ==
    /\ cur = TaskMain
    /\ main_pc \in {"join", "joining"}
    /\ IF main_pc = "joining" \/ JoinReturnsNow(q)
       THEN /\ main_pc' = "cancel"
            /\ UNCHANGED <<q, cur>>
       ELSE /\ main_pc' = "joining"
            /\ q' = [q EXCEPT !.joining = TRUE]
            /\ cur' = NoTask
    /\ UNCHANGED <<env, cache_dir, csv_dir, pdfs, csvs, zip, ready, dl, wk, hist>>

\* lines 146-147
MainCancel ==
    /\ cur = TaskMain
    /\ main_pc = "cancel"
    /\ wk' = [k \in Workers |-> Cancelled(wk[k])]
    /\ main_pc' = "zip"
    /\ UNCHANGED <<env, cache_dir, csv_dir, pdfs, csvs, zip, ready, cur, dl, q, hist>>

\* only the files written since the run started are listed
ListWritten(dir) == {n \in DOMAIN dir : dir[n].exists /\ n \in written}

\* os.listdir
ListDir(dir) == {n \in DOMAIN dir : dir[n].exists}

\* lines 148-151: os.listdir raises unless csv_path is a directory
MainZip ==
    /\ cur = TaskMain
    /\ main_pc = "zip"
    /\ IF csv_dir = "dir"
       THEN /\ zip' = ListDir(csvs)
            /\ zipped' = zipped + 1
            /\ main_pc' = "done"
       ELSE /\ zip' = {}
            /\ main_pc' = "failed"
            /\ UNCHANGED zipped
    /\ ready' = <<>>
    /\ cur' = NoTask
    /\ UNCHANGED <<env, cache_dir, csv_dir, pdfs, csvs, dl, wk, q,
                   fetched, reconciled, written, decided, fs0>>

\* line 154 once more: the program is run again on the files it left
Restart ==
    /\ main_pc = "done"
    /\ run < MaxRuns
    /\ UNCHANGED <<report_urls, ntasks, cache_dir, csv_dir, pdfs, csvs, zip, doc_in, csv_out,
                   url_in, name_out>>
    /\ run' = run + 1
    /\ now' = now + 1
    /\ fs0' = [pdfs |-> pdfs, csvs |-> csvs]
    /\ ready' = <<TaskMain>>
    /\ cur' = NoTask
    /\ main_pc' = "start"
    /\ dl' = DlInit
    /\ wk' = [k \in Workers |-> WkInit]
    /\ q' = QueueInit
    /\ fetched' = {}
    /\ reconciled' = {}
    /\ written' = {}
    /\ decided' = [fetch |-> NoDecision, transform |-> NoDecision]
    /\ zipped' = 0

Producer == DlMkdir \/ DlHead \/ DlGet \/ DlPut \/ DlReturn

Consumer(k) ==
    WkMkdir(k) \/ WkGet(k) \/ WkStat(k) \/ WkProcess(k) \/ WkWrite(k) \/ WkTaskDone(k)

Driver == MainStart \/ MainGathered \/ MainJoin \/ MainCancel \/ MainZip

Next == Dispatch \/ Driver \/ Producer \/ (\E k \in Workers : Consumer(k)) \/ Restart

Spec == Init /\ [][Next]_vars

\* ------------------------------------------------- data_to_csv on its own
MaxRegions == 2     \* most table regions in a document
MaxRows == 3        \* most rows in a region

Widths == {2, KeepCols, KeepCols + 1}

HeaderCells == {"Number", " Number ", "No."}

\* the cell of region g, row r, column c
Cell(g, r, c) == ToString(1000 * g + 100 * r + c)

\* region g with n rows of w cells; h is the first cell of the header row
Region(g, n, w, h) ==
    [r \in 1..n |-> [c \in 1..w |-> IF g = 1 /\ r = HeaderRow + 1 /\ c = 1 THEN h
                                    ELSE Cell(g, r, c)]]

RegionShapes == (1..MaxRows) \X Widths

Documents ==
    {DocCorrupt} \cup
    {[ok |-> TRUE,
      tables |-> [g \in 1..Len(shapes) |-> Region(g, shapes[g][1], shapes[g][2], h)]] :
        shapes \in SeqsUpTo(RegionShapes, MaxRegions), h \in HeaderCells}

\* no run of main is under way: the state the calls made on their own start in
InitIdle ==
    /\ report_urls = <<>>
    /\ ntasks = 1
    /\ run = 1
    /\ now = MaxOld + 1
    /\ zip = "none"
    /\ cache_dir = "dir"
    /\ csv_dir = "dir"
    /\ pdfs = [n \in PdfNames |-> NoPdf]
    /\ csvs = [n \in CsvNames |-> NoCsv]
    /\ fs0 = [pdfs |-> pdfs, csvs |-> csvs]
    /\ ProcessInit

InitExtract ==
    /\ doc_in \in Documents
    /\ csv_out = NotCalled
    /\ url_in = <<>>
    /\ name_out = <<>>
    /\ InitIdle

\* lines 84-105
CallDataToCsv ==
    /\ csv_out = NotCalled
    /\ csv_out' = data_to_csv(doc_in)
    /\ UNCHANGED <<report_urls, ntasks, run, now, cache_dir, csv_dir, pdfs, csvs, zip, ready,
                   cur, main_pc, dl, wk, q, hist, doc_in, url_in, name_out>>

SpecExtract == InitExtract /\ [][CallDataToCsv]_vars

\* ------------------------------------------ get_valid_filename on its own
MaxSeg == 3         \* most symbols after the host in a URL
MaxCalls == 2       \* how many times the name of a URL is derived

\* the symbols URLs are made of, and two URLs spelled out
UrlSymbols == {" ", "\t", "(", ")", "-", "_", ".", "/", "Report"}

UrlReport == <<"h", "/", "Report", " ", "(", "final", ")", ".", "pdf">>

UrlsIn == {<<"h", "/">> \o s : s \in SeqsUpTo(UrlSymbols, MaxSeg)} \cup {UrlReport, UrlW}

InitFilename ==
    /\ url_in \in UrlsIn
    /\ name_out = <<>>
    /\ doc_in = NoDoc
    /\ csv_out = NotCalled
    /\ InitIdle

\* lines 66 and 16-28
CallGetValidFilename ==
    /\ Len(name_out) < MaxCalls
    /\ name_out' = Append(name_out, get_valid_filename(LastSegment(url_in)))
    /\ UNCHANGED <<report_urls, ntasks, run, now, cache_dir, csv_dir, pdfs, csvs, zip, ready,
                   cur, main_pc, dl, wk, q, hist, doc_in, csv_out, url_in>>

SpecFilename == InitFilename /\ [][CallGetValidFilename]_vars

\* ================================================================== claims
\* the event loop has no task to run: the run is over, or blocked for good
Quiescent == cur = NoTask /\ ready = <<>>

DirsOk == cache_dir = "dir" /\ csv_dir = "dir"

Range(f) == {f[i] : i \in DOMAIN f}

\* C1: an error raised while a worker processes an item is caught at the
\* worker: no worker ends because of an item (only the directory check of
\* lines 113-114 may end one).
C1_ItemErrorsCaught ==
    \A k \in Workers : wk[k].pc = "raised" => wk[k].exc = "IOError"

\* C2: in a run where the processing of a queued document fails (detection
\* raises, or the widths cannot be aligned), once the run has nothing left to
\* do the archive is built, the failing document has no output written, and
\* every other queued document whose output was stale has its output written.
FailsToConvert(p) == data_to_csv(pdfs[p].doc).type # "str"

StaleAtStart(p) ==
    \/ ~fs0.csvs[CsvFilename(p)].exists
    \/ fs0.csvs[CsvFilename(p)].mtime < pdfs[p].mtime

C2_FailureIsolated ==
    ( /\ Quiescent
      /\ DirsOk
      /\ dl.pc = "done"
      /\ \A p \in Range(dl.output_paths) : Exists(pdfs, p)
      /\ \E p \in Range(dl.output_paths) : FailsToConvert(p)
      /\ \E p \in Range(dl.output_paths) : ~FailsToConvert(p) /\ StaleAtStart(p) )
    => /\ main_pc = "done"
       /\ \A p \in Range(dl.output_paths) :
             IF FailsToConvert(p)
             THEN CsvFilename(p) \notin written
             ELSE StaleAtStart(p) => CsvFilename(p) \in written

\* C3: whatever the outcomes of the items, a run whose directories are in
\* order does not stop before the producer has finished, the queue has
\* drained, the workers are stopped and the archive is built.
C3_RunCompletes ==
    (Quiescent /\ DirsOk)
    => /\ main_pc = "done"
       /\ dl.pc = "done"
       /\ zipped = 1

C5_SecondRunIdle ==
    (run > 1 /\ main_pc = "done")
    => /\ fetched = {}
       /\ reconciled = {}
       /\ pdfs = fs0.pdfs
       /\ csvs = fs0.csvs

\* C5: a second run with the remote sources unchanged leaves every cached
\* document and every output artifact as it was; it requests the content only
\* of URLs whose content request fails (the cached copy is still older than
\* the remote time) and reconciles only documents whose reconciliation ends
\* in a reconciliation error (they still have no current output).
C5_SecondRunOnlyRetries ==
    (run > 1 /\ main_pc = "done")
    => /\ pdfs = fs0.pdfs
       /\ csvs = fs0.csvs
       /\ \A u \in fetched :
             /\ Remote(u).get # HttpOk
             /\ fs0.pdfs[PdfPath(u)].exists
             /\ fs0.pdfs[PdfPath(u)].mtime < Remote(u).last_modified
       /\ \A p \in reconciled :
             /\ data_to_csv(pdfs[p].doc).type = "ValueError"
             /\ \/ ~fs0.csvs[CsvFilename(p)].exists
                \/ fs0.csvs[CsvFilename(p)].mtime < pdfs[p].mtime

C5_Witness ==
    /\ run = 2
    /\ main_pc = "done"
    /\ report_urls = <<UrlA, UrlW>>
    /\ fetched = {}
    /\ reconciled = {PdfPath(UrlW)}
    /\ Exists(csvs, CsvFilename(PdfPath(UrlA)))
    /\ csvs = fs0.csvs

\* C6: in both stages the candidate is stale iff its file is absent or its
\* time is strictly older than the reference; equal times are not stale.
C6_StaleIffAbsentOrOlder ==
    \A d \in {decided.fetch, decided.transform} :
        d.taken => (d.stale <=> (~d.exists \/ d.mtime < d.reference))

C6_Witness ==
    /\ decided.fetch.taken
    /\ decided.fetch.exists
    /\ decided.fetch.mtime = decided.fetch.reference
    /\ ~decided.fetch.stale
    /\ decided.transform.taken
    /\ decided.transform.exists
    /\ decided.transform.mtime = decided.transform.reference
    /\ ~decided.transform.stale

\* C7: a worker whose reconciliation of the dequeued document ends in a
\* reconciliation error changes no file of the output directory, in the call
\* and in the step that handles its result.
C7_ErrorWritesNothing ==
    [][\A k \in Workers :
          ( /\ cur = Worker(k)
            /\ wk[k].pc \in {"process", "result"}
            /\ data_to_csv(pdfs[wk[k].pdf_path].doc).type = "ValueError" )
          => csvs' = csvs]_vars

C7_Witness ==
    \E k \in Workers :
        /\ wk[k].pc = "task_done"
        /\ wk[k].csv_data_maybe.type = "ValueError"
        /\ fs0.csvs[wk[k].output_path].exists
        /\ csvs[wk[k].output_path] = fs0.csvs[wk[k].output_path]

\* C8: for a document of the malformed-header variant whose regions have 11
\* columns, data_to_csv succeeds, the first column is named "Number", every
\* data row has exactly 10 columns and so has the header.
Malformed11(doc) ==
    /\ doc.ok
    /\ doc.tables # <<>>
    /\ Len(doc.tables[1]) > HeaderRow
    /\ \A g \in DOMAIN doc.tables : RegionWidth(doc.tables[g]) = KeepCols + 1
    /\ StripCell(doc.tables[1][HeaderRow + 1][1]) # "Number"

C8_HeaderRepaired ==
    (csv_out.type # "not called" /\ Malformed11(doc_in))
    => /\ csv_out.type = "str"
       /\ csv_out.columns[1] = "Number"
       /\ Len(csv_out.columns) = KeepCols
       /\ \A r \in DOMAIN csv_out.rows : Len(csv_out.rows[r].cells) = KeepCols

\* C9: when the producer has finished, the paths it pushed are one entry per
\* source URL whose HEAD request succeeded, in the order of the list, and no
\* others; what is left in the queue is a tail of them.
RECURSIVE PassedPaths(_)
PassedPaths(urls) ==
    IF urls = <<>> THEN <<>>
    ELSE (IF Remote(Head(urls)).head = HttpOk THEN <<PdfPath(Head(urls))>> ELSE <<>>)
         \o PassedPaths(Tail(urls))

C9_OnePushPerPassedUrl ==
    dl.pc = "done"
    => LET expected == PassedPaths(report_urls)
       IN  /\ dl.output_paths = expected
           /\ Len(q.queue) <= Len(expected)
           /\ q.queue = SubSeq(expected, Len(expected) - Len(q.queue) + 1, Len(expected))
           /\ q.unfinished_tasks <= Len(expected)

C9_Witness ==
    /\ dl.pc = "done"
    /\ report_urls = <<UrlA, UrlG>>
    /\ fetched = {UrlG}
    /\ ~Exists(pdfs, PdfPath(UrlG))
    /\ q.queue = <<PdfPath(UrlA), PdfPath(UrlG)>>

\* C10: on a URL whose HEAD request does not succeed the producer requests
\* no content, changes no cached file, pushes nothing and goes on to the next
\* URL.
C10_UnavailableSkipped ==
    [][( /\ cur = TaskDl
         /\ dl.pc = "loop"
         /\ dl.i <= Len(report_urls)
         /\ Remote(report_urls[dl.i]).head # HttpOk )
       => /\ fetched' = fetched
          /\ pdfs' = pdfs
          /\ q' = q
          /\ dl' = [dl EXCEPT !.i = @ + 1]]_vars

C10_Witness ==
    /\ cur = TaskDl
    /\ dl.pc = "loop"
    /\ dl.i = 2
    /\ report_urls = <<UrlD, UrlA>>
    /\ Exists(pdfs, PdfPath(UrlD))
    /\ pdfs = fs0.pdfs
    /\ fetched = {}
    /\ q.queue = <<>>

\* C11: when the content request of a stale URL fails the cached file stays
\* exactly as it was (absent or with its old content and time) and the path
\* is still pushed, once; a cached file changes only in a successful content
\* request of its own URL, and no step removes a cached file.
C11_FailedFetchKeepsCache ==
    [][/\ ( /\ cur = TaskDl
            /\ dl.pc = "get"
            /\ Remote(report_urls[dl.i]).get # HttpOk )
          => /\ pdfs' = pdfs
             /\ dl'.pc = "put"
             /\ dl'.output_path = dl.output_path
       /\ (cur = TaskDl /\ dl.pc = "put")
          => /\ dl'.output_paths = Append(dl.output_paths, dl.output_path)
             /\ q'.queue = Append(q.queue, dl.output_path)
             /\ q'.unfinished_tasks = q.unfinished_tasks + 1
       /\ \A n \in PdfNames :
             /\ pdfs'[n] # pdfs[n]
                => /\ cur = TaskDl
                   /\ dl.pc = "get"
                   /\ Remote(report_urls[dl.i]).get = HttpOk
                   /\ n = PdfPath(report_urls[dl.i])
                   /\ pdfs'[n].doc = Remote(report_urls[dl.i]).content
             /\ pdfs[n].exists => pdfs'[n].exists]_vars

C11_Witness ==
    /\ fetched = {UrlG}
    /\ Exists(pdfs, PdfPath(UrlG))
    /\ pdfs[PdfPath(UrlG)].mtime < Remote(UrlG).last_modified
    /\ pdfs = fs0.pdfs
    /\ dl.output_paths = <<PdfPath(UrlG)>>
    /\ q.unfinished_tasks = 1

\* C12: data_to_csv is total: whatever the document, the call ends with the
\* serialized text or with a returned error value, never with an exception.
C12_ExtractTotal ==
    csv_out.type # "not called" => csv_out.type \in {"str", "ValueError"}

\* C13: when the cache path or the output path is taken by a file, the run
\* ends with main failing: once nothing is left to run, main has ended with
\* an error, it is not blocked, and no archive was built.
C13_NotADirectoryAborts ==
    (Quiescent /\ (cache_dir = "file" \/ csv_dir = "file"))
    => /\ main_pc = "failed"
       /\ zipped = 0

\* C14: a worker that has dequeued an item runs alone until it has
\* acknowledged it: no other worker is inside an item, no other worker takes
\* a step, and the only output file that changes meanwhile is the one the
\* worker writes; no output file changes outside such a write.
InItem(k) == wk[k].pc \in {"stat", "process", "result", "task_done"}

C14_ItemsNotInterleaved ==
    [][/\ \A k \in Workers :
             InItem(k)
             => /\ cur = Worker(k)
                /\ \A j \in Workers \ {k} : ~InItem(j) /\ wk'[j] = wk[j]
                /\ \A n \in CsvNames : csvs'[n] # csvs[n] => n = wk[k].output_path
       /\ csvs' # csvs => \E k \in Workers : cur = Worker(k) /\ wk[k].pc = "result"]_vars

C14_Witness ==
    /\ ntasks = 2
    /\ report_urls = <<UrlT, UrlS>>
    /\ cur = Worker(1)
    /\ wk[1].pc = "task_done"
    /\ wk[1].pdf_path = PdfPath(UrlS)
    /\ wk[1].output_path = CsvFilename(PdfPath(UrlT))
    /\ reconciled = {PdfPath(UrlT)}
    /\ written = {wk[1].output_path}
    /\ Worker(2) \in Range(ready)

\* C15: the archive is built once, in a run that completes, after the queue
\* has drained and every worker has been stopped; it holds exactly the files
\* of the output directory: those left by earlier runs and those written in
\* this run, and none for a document whose reconciliation failed and that had
\* no artifact.
C15_ArchiveOfOutputDir ==
    /\ zipped = (IF main_pc = "done" THEN 1 ELSE 0)
    /\ main_pc \in {"zip", "done"}
       => /\ dl.pc = "done"
          /\ q.queue = <<>>
          /\ q.unfinished_tasks = 0
          /\ \A k \in Workers : wk[k].pc \in {"cancelled", "raised"}
    /\ main_pc = "done"
       => /\ zip = {n \in CsvNames : csvs[n].exists}
          /\ zip = {n \in CsvNames : fs0.csvs[n].exists} \cup written
          /\ \A k \in Workers : wk[k].pc = "cancelled"
          /\ \A p \in reconciled :
                ( /\ data_to_csv(pdfs[p].doc).type # "str"
                  /\ ~fs0.csvs[CsvFilename(p)].exists
                  /\ CsvFilename(p) \notin written )
                => CsvFilename(p) \notin zip

C15_Witness ==
    /\ main_pc = "done"
    /\ run = 2
    /\ report_urls = <<UrlW, UrlA>>
    /\ reconciled = {PdfPath(UrlW)}
    /\ written = {}
    /\ zip = {CsvFilename(PdfPath(UrlA))}

\* C16: the n-th path a worker dequeues is the n-th path the producer pushed,
\* which is the n-th URL of the source list among those whose HEAD request
\* succeeded, whichever worker dequeues it.
C16_DequeuedInPushOrder ==
    [][\A k \in Workers :
          ( /\ cur = Worker(k)
            /\ wk[k].pc \in {"get", "waiting"}
            /\ q.queue # <<>> )
          => LET n == Len(dl.output_paths) - Len(q.queue) + 1
             IN  /\ n \in 1..Len(PassedPaths(report_urls))
                 /\ wk'[k].pdf_path = PassedPaths(report_urls)[n]
                 /\ wk'[k].pdf_path = dl.output_paths[n]
                 /\ Len(q'.queue) = Len(q.queue) - 1]_vars

C16_Witness ==
    /\ ntasks = 2
    /\ report_urls = <<UrlA, UrlT>>
    /\ cur = Worker(1)
    /\ wk[1].pc = "stat"
    /\ wk[1].pdf_path = PdfPath(UrlT)
    /\ written = {CsvFilename(PdfPath(UrlA))}
    /\ q.queue = <<>>

\* C17: the cache file name of a URL is its last path segment with the
\* whitespace at both ends removed, every space left turned into an
\* underscore, and every symbol dropped that is not alphanumeric, a dash, an
\* underscore or a dot; "Report (final).pdf" gives "Report_final.pdf", and
\* every derivation from the same URL gives the same name.
AlphaNumeric == {"Report", "final", "pdf", "B", "7", "h"}

SegmentOf(url) ==
    LET slashes == {i \in 1..Len(url) : url[i] = "/"}
        from == IF slashes = {} THEN 1
                ELSE (CHOOSE i \in slashes : \A j \in slashes : j <= i) + 1
    IN  SubSeq(url, from, Len(url))

Trimmed(s) ==
    LET solid == {i \in 1..Len(s) : s[i] \notin {" ", "\t"}}
    IN  IF solid = {} THEN <<>>
        ELSE SubSeq(s, CHOOSE i \in solid : \A j \in solid : i <= j,
                       CHOOSE i \in solid : \A j \in solid : j <= i)

IsAllowed(c) == c \in AlphaNumeric \cup {"-", "_", "."}

ExpectedName(url) ==
    LET core == Trimmed(SegmentOf(url))
        under == [i \in 1..Len(core) |-> IF core[i] = " " THEN "_" ELSE core[i]]
    IN  SelectSeq(under, IsAllowed)

C17_FilenameDerivation ==
    /\ \A i \in 1..Len(name_out) : name_out[i] = ExpectedName(url_in)
    /\ (name_out # <<>> /\ url_in = UrlReport)
       => name_out[1] = <<"Report", "_", "final", ".", "pdf">>

C17_Witness ==
    /\ url_in = UrlReport
    /\ name_out = << <<"Report", "_", "final", ".", "pdf">>, <<"Report", "_", "final", ".", "pdf">> >>

\* C18: for a document whose regions all have as many columns as the header
\* (the second row of the first region), data_to_csv returns a table whose
\* header is that row (its first cell reading "Number" where the repair
\* applies) and whose data rows are the rows of all regions in region order
\* without the first two: every later row is there once, in its place.
RECURSIVE RowsBefore(_, _)
RowsBefore(tables, g) == IF g = 1 THEN 0 ELSE RowsBefore(tables, g - 1) + Len(tables[g - 1])

UniformWidth(doc) ==
    /\ doc.ok
    /\ doc.tables # <<>>
    /\ Len(doc.tables[1]) >= 2
    /\ \A g \in DOMAIN doc.tables : \A r \in DOMAIN doc.tables[g] :
          Len(doc.tables[g][r]) = Len(doc.tables[1][2])

C18_ConcatDropsTwo ==
    (csv_out.type # "not called" /\ UniformWidth(doc_in))
    => LET tables == doc_in.tables
           header == tables[1][2]
           total == RowsBefore(tables, Len(tables) + 1)
       IN  /\ csv_out.type = "str"
           /\ Len(csv_out.columns) = Len(header)
           /\ \A c \in 2..Len(header) : csv_out.columns[c] = header[c]
           /\ csv_out.columns[1] \in {header[1], "Number"}
           /\ Len(csv_out.rows) = total - 2
           /\ \A g \in DOMAIN tables : \A r \in DOMAIN tables[g] :
                 RowsBefore(tables, g) + r > 2
                 => csv_out.rows[RowsBefore(tables, g) + r - 2].cells = tables[g][r]

\* C19: a worker calls data_to_csv on a dequeued path, and writes the output
\* file, only when that file is absent or strictly older than the cached
\* document; otherwise it calls nothing, leaves the output file as it is and
\* goes straight to the acknowledgement, which it then makes.
OutputCurrent(p) ==
    /\ csvs[CsvFilename(p)].exists
    /\ csvs[CsvFilename(p)].mtime >= pdfs[p].mtime

C19_ConvertOnlyIfStale ==
    [][\A k \in Workers :
          cur = Worker(k)
          => /\ (wk[k].pc = "stat" /\ pdfs[wk[k].pdf_path].exists /\ OutputCurrent(wk[k].pdf_path))
                => /\ wk'[k].pc = "task_done"
                   /\ reconciled' = reconciled
                   /\ csvs' = csvs
             /\ wk[k].pc = "task_done"
                => /\ q'.unfinished_tasks = q.unfinished_tasks - 1
                   /\ reconciled' = reconciled
                   /\ csvs' = csvs
             /\ (reconciled' # reconciled \/ csvs' # csvs)
                => /\ pdfs[wk[k].pdf_path].exists
                   /\ ~OutputCurrent(wk[k].pdf_path)]_vars

C19_Witness ==
    \E k \in Workers :
        /\ cur = Worker(k)
        /\ wk[k].pc = "task_done"
        /\ wk[k].pdf_path = PdfPath(UrlG)
        /\ fetched = {UrlG}
        /\ csvs[CsvFilename(PdfPath(UrlG))].mtime > pdfs[PdfPath(UrlG)].mtime
        /\ reconciled = {}
        /\ csvs = fs0.csvs

\* C20: a worker that has dequeued the path of a document the producer wrote
\* afresh in this run does not skip it as already processed: data_to_csv is
\* called on the new content (by this worker, or it was when the same path
\* was dequeued before in this run).
FreshInRun(p) == \E u \in fetched : PdfPath(u) = p /\ Remote(u).get = HttpOk

Skipped(k) == wk[k].pc = "task_done" /\ wk[k].csv_data_maybe.type = "none"

C20_FreshSourceReconciled ==
    \A k \in Workers :
        (Skipped(k) /\ FreshInRun(wk[k].pdf_path)) => wk[k].pdf_path \in reconciled
====
